---------------------------- MODULE Spec2Model ----------------------------
(***************************************************************************)
(* The planet synchronization engine (api/services/sync_service.py), the   *)
(* fake-data generator it fills gaps with (api/services/data_generator.py),*)
(* the planets table (api/models.py) and the REST write path validated by  *)
(* PlanetCreateUpdateSerializer (api/serializers.py).                      *)
(*                                                                         *)
(* Representation of Python values:                                        *)
(*   - a dict is a function whose DOMAIN is the set of its keys, so an     *)
(*     absent key and a key holding None are different things;             *)
(*   - a value that may be None is a sequence of length <= 1: None is      *)
(*     <<>> and the value v is <<v>>;                                      *)
(*   - Python integers are unbounded while the checker's are 32 bits wide, *)
(*     and the generator draws populations up to 10,000,000,000, so a      *)
(*     population p is held as [k |-> p div 1000, u |-> p mod 1000]        *)
(*     (floor division, 0 <= u < 1000): p = 1000 * k + u exactly.          *)
(***************************************************************************)
EXTENDS Integers, Sequences, FiniteSets, TLC

VARIABLES
    planets,   \* the rows of table "planets" (models.Planet)
    nextId,    \* the next value of the AutoField primary key
    now,       \* the clock read by timezone.now(), in ticks
    rng,       \* the state of the process-wide generator of module random
    stats,     \* PlanetSyncService.stats of the engine
    last,      \* the last call made: its name, its input and how it ended
    lastSync,  \* how the most recent sync_planets() call ended, None before it
    ops,       \* the number of calls made so far
    runs       \* the sync_planets() calls that run step by step, side by side

vars == <<planets, nextId, now, rng, stats, last, lastSync, ops, runs>>

-----------------------------------------------------------------------------
(* Bounds of the model *)

MaxOps == 3
MaxBatch == 2
MaxSeed == 0

-----------------------------------------------------------------------------
(* Python values *)

None == <<>>
Some(v) == <<v>>
EmptyDict == [key \in {} |-> TRUE]

\* dict.get(key, default)
Get(d, key, default) == IF key \in DOMAIN d THEN d[key] ELSE default

\* d[key] = value on a copy of d
SetKey(d, key, value) ==
    [x \in DOMAIN d \cup {key} |-> IF x = key THEN value ELSE d[x]]

\* the integer 1000 * k + u, with 0 <= u < 1000
Pop(k, u) == [k |-> k, u |-> u]
Zero == Pop(0, 0)
PopNegative(p) == p.k < 0
PopPositive(p) == p.k > 0 \/ (p.k = 0 /\ p.u > 0)
PopDivisibleBy1000(p) == p.u = 0

\* Python truthiness of dict.get(key): None, 0 and the empty list are falsy
FalsyInt(o) == o = None \/ o[1] = Zero
FalsyList(o) == o = None \/ o[1] = <<>>

-----------------------------------------------------------------------------
(* Module random: a deterministic generator with process-wide state.  Each *)
(* call reads the state and advances it by one step.                       *)

RngNext(s) == (5 * s + 3) % 16

\* random.choice(seq)
choice(seq, s) == seq[(s % Len(seq)) + 1]

\* random.randint(a, b), a <= b
randint(a, b, s) == a + (s % (b - a + 1))

\* random.sample(population, k): k pairwise distinct elements, k <= len
sample(population, k, s) ==
    [j \in 1..k |-> population[((7 * s + j - 1) % Len(population)) + 1]]

\* random.randint(min_pop, max_pop) for bounds 1000 * lo and 1000 * hi: any
\* integer from 1000 * lo to 1000 * hi, both ends included
randintPop(lo, hi, s) ==
    IF s % 16 = 15 THEN Pop(hi, 0)
    ELSE IF s % 16 = 0 THEN Pop(lo, 0)
    ELSE Pop(lo + ((617 * s) % (hi - lo)), (389 * s) % 1000)

-----------------------------------------------------------------------------
(* PlanetDataGenerator *)

CLIMATE_TYPES ==
    << "temperate", "tropical", "arid", "frozen", "humid", "windy", "hot",
       "cold", "mild", "stormy", "clear", "cloudy", "rainy", "dry", "moist",
       "foggy", "misty", "hazy", "crisp", "muggy" >>

TERRAIN_TYPES ==
    << "desert", "forest", "rainforest", "grassland", "tundra", "mountains",
       "hills", "plains", "swamp", "jungle", "savanna", "steppe", "marsh",
       "volcanoes", "canyons", "valleys", "plateaus", "islands",
       "coastlines", "caves", "craters", "lakes", "rivers", "oceans",
       "glaciers", "cliffs" >>

\* (min_pop, max_pop) in thousands
population_ranges ==
    << <<1, 10>>, <<10, 100>>, <<100, 1000>>, <<1000, 10000>>,
       <<10000, 100000>>, <<100000, 1000000>>, <<1000000, 10000000>> >>

Min(a, b) == IF a < b THEN a ELSE b

\* Each generator returns [value, rng]: what it returns and the state of
\* random it leaves behind.

\* A variant with a fault: the population is not rounded down.
generate_population_unrounded(s) ==
    LET range == choice(population_ranges, s)
        population == randintPop(range[1], range[2], RngNext(s))
    IN  [value |-> population, rng |-> RngNext(RngNext(s))]

generate_population(s) ==
    LET range == choice(population_ranges, s)
        population == randintPop(range[1], range[2], RngNext(s))
    IN  [value |-> Pop(population.k, 0), rng |-> RngNext(RngNext(s))]

\* A variant with a fault: the count is not clamped to the vocabulary.
generate_climates_unclamped(count, s) ==
    LET n == IF count = None THEN randint(1, 3, s) ELSE count[1]
        s1 == IF count = None THEN RngNext(s) ELSE s
    IN  [value |-> sample(CLIMATE_TYPES, n, s1), rng |-> RngNext(s1)]

\* count is None, or Some(n)
generate_climates(count, s) ==
    LET n == IF count = None THEN randint(1, 3, s) ELSE count[1]
        s1 == IF count = None THEN RngNext(s) ELSE s
    IN  [value |-> sample(CLIMATE_TYPES, Min(n, Len(CLIMATE_TYPES)), s1),
         rng |-> RngNext(s1)]

generate_terrains(count, s) ==
    LET n == IF count = None THEN randint(2, 4, s) ELSE count[1]
        s1 == IF count = None THEN RngNext(s) ELSE s
    IN  [value |-> sample(TERRAIN_TYPES, Min(n, Len(TERRAIN_TYPES)), s1),
         rng |-> RngNext(s1)]

\* generated_data is a copy of original_data, which is left as it was: the
\* result carries the dict returned, and the argument as the call leaves it.
generate_planet_data(planet_name, original_data, s) ==
    LET noPop == FalsyInt(Get(original_data, "population", None))
        gp == generate_population(s)
        d1 == IF noPop THEN SetKey(original_data, "population", Some(gp.value))
              ELSE original_data
        s1 == IF noPop THEN gp.rng ELSE s
        noCli == FalsyList(Get(original_data, "climates", None))
        gc == generate_climates(None, s1)
        d2 == IF noCli THEN SetKey(d1, "climates", Some(gc.value)) ELSE d1
        s2 == IF noCli THEN gc.rng ELSE s1
        noTer == FalsyList(Get(original_data, "terrains", None))
        gt == generate_terrains(None, s2)
        d3 == IF noTer THEN SetKey(d2, "terrains", Some(gt.value)) ELSE d2
        s3 == IF noTer THEN gt.rng ELSE s2
    IN  [value |-> d3, rng |-> s3, original_data |-> original_data]

-----------------------------------------------------------------------------
(* models.Planet and the queries the engine makes on Planet.objects *)

\* A row of table "planets", inserted at time t (auto_now_add, auto_now).
\* external_id is nullable; the other columns are NOT NULL.
Planet(id, external_id, name, population, climates, terrains, t) ==
    [id |-> id, external_id |-> external_id, name |-> name,
     population |-> population, climates |-> climates, terrains |-> terrains,
     created_at |-> t, updated_at |-> t]

\* Planet.objects.filter(external_id=value): a None value selects the rows
\* whose external_id IS NULL
filter_external_id(rows, value) == {p \in rows : p.external_id = value}

\* The NOT NULL columns a write carries: a None among them is rejected by the
\* table (IntegrityError)
NotNullViolated(fields) ==
    \/ fields.name = None
    \/ fields.population = None
    \/ fields.climates = None
    \/ fields.terrains = None

\* A variant of update_or_create with a fault: it never looks for the row
\* and always inserts.
always_create(rows, external_id, defaults, id, t) ==
    IF NotNullViolated(defaults) THEN [raised |-> TRUE]
    ELSE LET new == Planet(id, external_id, defaults.name[1],
                           defaults.population[1], defaults.climates[1],
                           defaults.terrains[1], t)
         IN  [raised |-> FALSE, created |-> TRUE, planet |-> new,
              rows |-> rows \cup {new}]

\* A variant of update_or_create with a fault: the row it finds takes the
\* defaults but keeps its updated_at.
update_or_create_keeping_stamp(rows, external_id, defaults, id, t) ==
    LET matches == filter_external_id(rows, external_id)
    IN  IF Cardinality(matches) > 1 \/ NotNullViolated(defaults)
        THEN [raised |-> TRUE]
        ELSE IF matches # {}
        THEN LET old == CHOOSE p \in matches : TRUE
                 new == [old EXCEPT !.name = defaults.name[1],
                                    !.population = defaults.population[1],
                                    !.climates = defaults.climates[1],
                                    !.terrains = defaults.terrains[1]]
             IN  [raised |-> FALSE, created |-> FALSE, planet |-> new,
                  rows |-> (rows \ {old}) \cup {new}]
        ELSE always_create(rows, external_id, defaults, id, t)

\* Planet.objects.update_or_create(external_id=external_id, defaults=defaults)
\* at time t, the next primary key being id.  It runs in a savepoint of its
\* own, so a write that fails leaves the rows as they were.
\*   more than one row matches  -> MultipleObjectsReturned
\*   one row matches            -> that row takes the defaults
\*   no row matches             -> a row is inserted
update_or_create(rows, external_id, defaults, id, t) ==
    LET matches == filter_external_id(rows, external_id)
    IN  IF Cardinality(matches) > 1 \/ NotNullViolated(defaults)
        THEN [raised |-> TRUE]
        ELSE IF matches # {}
        THEN LET old == CHOOSE p \in matches : TRUE
                 new == [old EXCEPT !.name = defaults.name[1],
                                    !.population = defaults.population[1],
                                    !.climates = defaults.climates[1],
                                    !.terrains = defaults.terrains[1],
                                    !.updated_at = t]
             IN  [raised |-> FALSE, created |-> FALSE, planet |-> new,
                  rows |-> (rows \ {old}) \cup {new}]
        ELSE LET new == Planet(id, external_id, defaults.name[1],
                               defaults.population[1], defaults.climates[1],
                               defaults.terrains[1], t)
             IN  [raised |-> FALSE, created |-> TRUE, planet |-> new,
                  rows |-> rows \cup {new}]

-----------------------------------------------------------------------------
(* PlanetSyncService *)

ZeroStats == [created |-> 0, updated |-> 0, errors |-> 0, total_processed |-> 0]

\* A batch item is None or Some(dict); None has no method get, so mapping it
\* raises.  Returns [raised], and when it returns, [value, rng].
_transform_planet_data(planet_data, s) ==
    IF planet_data = None THEN [raised |-> TRUE]
    ELSE LET d == planet_data[1]
             planet_name == Get(d, "name", Some("Unknown Planet"))
             g == generate_planet_data(planet_name, d, s)
             complete_data == g.value
         IN  [raised |-> FALSE,
              value |-> [external_id |-> Get(complete_data, "id", None),
                         name |-> Get(complete_data, "name", Some("")),
                         population |-> Get(complete_data, "population", Some(Zero)),
                         climates |-> Get(complete_data, "climates", Some(<<>>)),
                         terrains |-> Get(complete_data, "terrains", Some(<<>>))],
              rng |-> g.rng]

\* The engine and what it touches, while a call runs:
\* [planets, nextId, now, rng, stats, log]

Bump(st, counter) == [st EXCEPT !.stats[counter] = @ + 1]

Logged(st, level, msg, item) ==
    [st EXCEPT !.log = Append(@, [level |-> level, msg |-> msg, item |-> item])]

\* Returns [raised, st]; i is the item's place in the batch, for the log.
_update_or_create_planet(st, planet_data, i) ==
    LET t == st.now + 1
        r == update_or_create(st.planets, planet_data.external_id,
                              [name |-> planet_data.name,
                               population |-> planet_data.population,
                               climates |-> planet_data.climates,
                               terrains |-> planet_data.terrains],
                              st.nextId, t)
        st1 == [st EXCEPT !.now = t]
    IN  IF r.raised
        THEN [raised |-> TRUE,
              st |-> Logged(Bump(st1, "errors"), "error", "Error processing planet", i)]
        ELSE IF r.created
        THEN [raised |-> FALSE,
              st |-> Logged(Bump([st1 EXCEPT !.planets = r.rows, !.nextId = @ + 1],
                                 "created"),
                            "info", "Created planet", i)]
        ELSE [raised |-> FALSE,
              st |-> Logged(Bump([st1 EXCEPT !.planets = r.rows], "updated"),
                            "info", "Updated planet", i)]

\* One turn of the loop of sync_planets, on item i of the batch
ProcessPlanet(st, planet_data, i) ==
    LET tr == _transform_planet_data(planet_data, st.rng)
    IN  IF tr.raised
        THEN Logged(Bump(st, "errors"), "error", "Failed to process planet", i)
        ELSE LET up == _update_or_create_planet([st EXCEPT !.rng = tr.rng],
                                                tr.value, i)
             IN  IF up.raised
                 THEN Logged(Bump(up.st, "errors"), "error",
                             "Failed to process planet", i)
                 ELSE Bump(up.st, "total_processed")

\* The loop of sync_planets from item i on
RECURSIVE ProcessPlanets(_, _, _)
ProcessPlanets(st, batch, i) ==
    IF i > Len(batch) THEN st
    ELSE ProcessPlanets(ProcessPlanet(st, batch[i], i), batch, i + 1)

\* Variants of sync_planets with a fault, against which the properties below
\* are tried.  PlanetList is the list a response carries, None when reading
\* it raises.
PlanetList(response_data) ==
    LET all_planets == Get(response_data, "allPlanets", Some(EmptyDict))
    IN  IF all_planets = None THEN None
        ELSE Get(all_planets[1], "planets", Some(<<>>))

\* The first takes a failed fetch for an empty answer and returns.
sync_planets_swallowing(st, fetched) ==
    LET st0 == [st EXCEPT !.stats = ZeroStats, !.log = <<>>]
        batch == IF fetched.raised THEN Some(<<>>) ELSE PlanetList(fetched.value)
    IN  IF batch = None THEN [raised |-> TRUE, st |-> st0]
        ELSE [raised |-> FALSE, st |-> ProcessPlanets(st0, batch[1], 1)]

\* The second counts an empty list as an error.
sync_planets_empty_is_error(st, fetched) ==
    LET st0 == [st EXCEPT !.stats = ZeroStats, !.log = <<>>]
        batch == IF fetched.raised THEN None ELSE PlanetList(fetched.value)
    IN  IF batch = None THEN [raised |-> TRUE, st |-> st0]
        ELSE IF batch[1] = <<>> THEN [raised |-> FALSE, st |-> Bump(st0, "errors")]
        ELSE [raised |-> FALSE, st |-> ProcessPlanets(st0, batch[1], 1)]

\* The third has no try around the body of the loop: the first item that
\* fails ends the run, and the transaction is rolled back.
sync_planets_without_isolation(st, fetched) ==
    LET st0 == [st EXCEPT !.stats = ZeroStats, !.log = <<>>]
        batch == IF fetched.raised THEN None ELSE PlanetList(fetched.value)
    IN  IF batch = None THEN [raised |-> TRUE, st |-> st0]
        ELSE LET done == ProcessPlanets(st0, batch[1], 1)
             IN  IF done.stats.errors > 0
                 THEN [raised |-> TRUE, st |-> [done EXCEPT !.planets = st.planets]]
                 ELSE [raised |-> FALSE, st |-> done]

\* The fourth does not reset the statistics when it starts.
sync_planets_accumulating(st, fetched) ==
    LET st0 == [st EXCEPT !.log = <<>>]
        batch == IF fetched.raised THEN None ELSE PlanetList(fetched.value)
    IN  IF batch = None THEN [raised |-> TRUE, st |-> st0]
        ELSE [raised |-> FALSE, st |-> ProcessPlanets(st0, batch[1], 1)]

\* sync_planets, given what self.client.fetch_planets() does: fetched is
\* [raised |-> TRUE] or [raised |-> FALSE, value |-> response_data].
\* Returns [raised, st], and when it returns, the statistics in st.stats.
sync_planets(st, fetched) ==
    LET st0 == [st EXCEPT !.stats = ZeroStats, !.log = <<>>]
    IN  IF fetched.raised
        THEN [raised |-> TRUE,
              st |-> Logged(st0, "error", "Planet synchronization failed", 0)]
        ELSE LET all_planets == Get(fetched.value, "allPlanets", Some(EmptyDict))
             IN  IF all_planets = None
                 THEN [raised |-> TRUE,
                       st |-> Logged(st0, "error", "Planet synchronization failed", 0)]
                 ELSE LET batch == Get(all_planets[1], "planets", Some(<<>>))
                          st1 == IF FalsyList(batch)
                                 THEN Logged(st0, "warning",
                                             "No planets returned from API", 0)
                                 ELSE st0
                      IN  IF batch = None
                          THEN [raised |-> TRUE,
                                st |-> Logged(st1, "error",
                                              "Planet synchronization failed", 0)]
                          ELSE [raised |-> FALSE,
                                st |-> ProcessPlanets(st1, batch[1], 1)]

\* A variant of LastUpdated with a fault: the order is ascending.
FirstUpdated(rows) ==
    CHOOSE p \in rows : \A q \in rows : p.updated_at <= q.updated_at

\* get_sync_status
LastUpdated(rows) ==
    CHOOSE p \in rows : \A q \in rows : q.updated_at <= p.updated_at

\* A variant with a fault: the statistics of a fresh engine are reported.
get_sync_status_of_fresh_engine(rows, engineStats) ==
    [total_planets_in_db |-> Cardinality(rows),
     last_updated_planet |-> IF rows = {} THEN None ELSE Some(LastUpdated(rows).name),
     last_sync_time |-> IF rows = {} THEN None ELSE Some(LastUpdated(rows).updated_at),
     last_sync_stats |-> ZeroStats]

get_sync_status(rows, engineStats) ==
    [total_planets_in_db |-> Cardinality(rows),
     last_updated_planet |-> IF rows = {} THEN None ELSE Some(LastUpdated(rows).name),
     last_sync_time |-> IF rows = {} THEN None ELSE Some(LastUpdated(rows).updated_at),
     last_sync_stats |-> engineStats]

-----------------------------------------------------------------------------
(* PlanetCreateUpdateSerializer and the create, update, partial_update and *)
(* destroy handlers of PlanetViewSet                                       *)

\* str.strip() on the strings requests carry
strip(str) ==
    CASE str = " Hoth " -> "Hoth"
      [] str = " p1 " -> "p1"
      [] str = "  " -> ""
      [] OTHER -> str

\* A variant with a fault: every value is accepted.
validate_external_id_unchecked(rows, value, instance) == TRUE

\* validate_external_id: value is None or Some(string); instance is None or
\* Some(row).  TRUE when the value is accepted.
validate_external_id(rows, value, instance) ==
    IF value # None /\ value[1] # ""
    THEN ~ \E p \in filter_external_id(rows, value) :
               instance = None \/ p.id # instance[1].id
    ELSE TRUE

\* validate_name: the name is rejected when empty or blank
validate_name(value) == ~ (value = "" \/ strip(value) = "")

\* A variant with a fault: every population is accepted.
validate_population_unchecked(value) == TRUE

\* validate_population
validate_population(value) == ~ PopNegative(value)

\* A field of the request: absent, or present with a value that is None or
\* Some(v).  CharField trims the string before the field's validator runs.
FieldErrors(rows, data, instance, partial) ==
    {f \in {"external_id", "name", "population", "climates", "terrains"} :
        IF f \notin DOMAIN data
        THEN f \in {"name", "population"} /\ ~ partial
        ELSE CASE f = "external_id" ->
                    data[f] # None
                    /\ ~ validate_external_id(rows, Some(strip(data[f][1])), instance)
               [] f = "name" ->
                    data[f] = None \/ strip(data[f][1]) = ""
                    \/ ~ validate_name(strip(data[f][1]))
               [] f = "population" ->
                    data[f] = None \/ ~ validate_population(data[f][1])
               [] OTHER -> data[f] = None}

\* serializer.validated_data of a request without errors
ValidatedData(data, partial) ==
    LET given == DOMAIN data
        keys == IF partial THEN given ELSE given \cup {"climates", "terrains"}
    IN  [f \in keys |->
            IF f \notin given THEN <<>>
            ELSE CASE f = "external_id" ->
                        IF data[f] = None THEN None ELSE Some(strip(data[f][1]))
                   [] f = "name" -> strip(strip(data[f][1]))
                   [] OTHER -> data[f][1]]

\* the row after serializer.save() on an instance
Updated(instance, validated, t) ==
    [c \in DOMAIN instance |->
        IF c = "updated_at" THEN t
        ELSE IF c \in DOMAIN validated THEN validated[c]
        ELSE instance[c]]

-----------------------------------------------------------------------------
(* The state after construction: an empty table and a fresh engine *)

MaxRuns == 2

\* no sync_planets() call is running step by step
NoRuns == [p \in 1..MaxRuns |-> [pc |-> "idle"]]

Init ==
    /\ planets = {}
    /\ nextId = 1
    /\ now = 0
    /\ rng \in 0..MaxSeed
    /\ stats = ZeroStats
    /\ last = [op |-> "init"]
    /\ lastSync = None
    /\ ops = 0
    /\ runs = NoRuns

Engine ==
    [planets |-> planets, nextId |-> nextId, now |-> now, rng |-> rng,
     stats |-> stats, log |-> <<>>]

-----------------------------------------------------------------------------
(* Calls *)

\* PlanetSyncService.sync_planets() on the engine
SyncPlanets(fetched) ==
    /\ ops < MaxOps
    /\ \E r \in {sync_planets(Engine, fetched)} :
           /\ planets' = r.st.planets
           /\ nextId' = r.st.nextId
           /\ now' = r.st.now
           /\ rng' = r.st.rng
           /\ stats' = r.st.stats
           /\ last' = [op |-> "sync_planets", fetched |-> fetched,
                       raised |-> r.raised,
                       ret |-> IF r.raised THEN None ELSE Some(r.st.stats),
                       log |-> r.st.log]
           /\ lastSync' = Some([raised |-> r.raised,
                                 ret |-> IF r.raised THEN None ELSE Some(r.st.stats)])
    /\ ops' = ops + 1
    /\ UNCHANGED runs

\* PlanetSyncService.get_sync_status() on the engine
GetSyncStatus ==
    /\ ops < MaxOps
    /\ last' = [op |-> "get_sync_status", raised |-> FALSE,
                ret |-> Some(get_sync_status(planets, stats))]
    /\ ops' = ops + 1
    /\ UNCHANGED runs
    /\ UNCHANGED <<planets, nextId, now, rng, stats, lastSync>>

\* POST /planets/
RestCreate(data) ==
    /\ ops < MaxOps
    /\ LET errors == FieldErrors(planets, data, None, FALSE)
           v == ValidatedData(data, FALSE)
       IN  IF errors # {}
           THEN /\ last' = [op |-> "create", data |-> data, status |-> 400]
                /\ UNCHANGED <<planets, nextId, now>>
           ELSE /\ planets' = planets \cup
                       {Planet(nextId, Get(v, "external_id", None), v.name,
                               v.population, v.climates, v.terrains, now + 1)}
                /\ nextId' = nextId + 1
                /\ now' = now + 1
                /\ last' = [op |-> "create", data |-> data, status |-> 201]
    /\ ops' = ops + 1
    /\ UNCHANGED runs
    /\ UNCHANGED <<rng, stats, lastSync>>

\* PUT /planets/<pk>/ (partial = FALSE) and PATCH /planets/<pk>/ (TRUE)
RestUpdate(pk, data, partial) ==
    /\ ops < MaxOps
    /\ LET found == {p \in planets : p.id = pk}
           op == IF partial THEN "partial_update" ELSE "update"
       IN  IF found = {}
           THEN /\ last' = [op |-> op, pk |-> pk, data |-> data, status |-> 404]
                /\ UNCHANGED <<planets, now>>
           ELSE LET instance == CHOOSE p \in found : TRUE
                    errors == FieldErrors(planets, data, Some(instance), partial)
                IN  IF errors # {}
                    THEN /\ last' = [op |-> op, pk |-> pk, data |-> data,
                                     status |-> 400]
                         /\ UNCHANGED <<planets, now>>
                    ELSE /\ planets' = (planets \ {instance}) \cup
                                {Updated(instance, ValidatedData(data, partial),
                                         now + 1)}
                         /\ now' = now + 1
                         /\ last' = [op |-> op, pk |-> pk, data |-> data,
                                     status |-> 200]
    /\ ops' = ops + 1
    /\ UNCHANGED runs
    /\ UNCHANGED <<nextId, rng, stats, lastSync>>

\* DELETE /planets/<pk>/
RestDelete(pk) ==
    /\ ops < MaxOps
    /\ LET found == {p \in planets : p.id = pk}
       IN  /\ planets' = planets \ found
           /\ last' = [op |-> "destroy", pk |-> pk,
                       status |-> IF found = {} THEN 404 ELSE 204]
    /\ ops' = ops + 1
    /\ UNCHANGED runs
    /\ UNCHANGED <<nextId, now, rng, stats, lastSync>>

\* The engine a view makes for the request it serves: PlanetSyncService()
FreshEngine ==
    [planets |-> planets, nextId |-> nextId, now |-> now, rng |-> rng,
     stats |-> ZeroStats, log |-> <<>>]

\* A variant with a fault: a run that counted errors is answered 500.
full_sync_response_strict(r) ==
    IF r.raised \/ r.st.stats.errors > 0
    THEN [status |-> 500, body |-> [error |-> "Sync failed"]]
    ELSE [status |-> 200,
          body |-> [message |-> "Planet synchronization completed",
                    stats |-> r.st.stats, action |-> "full_sync"]]

\* The answer of the view to what sync_planets() did, r being [raised, st]
full_sync_response(r) ==
    IF r.raised
    THEN [status |-> 500, body |-> [error |-> "Sync failed"]]
    ELSE [status |-> 200,
          body |-> [message |-> "Planet synchronization completed",
                    stats |-> r.st.stats, action |-> "full_sync"]]

\* POST /planets/sync/ with body request_data.  A planet_id that is truthy
\* asks for sync_single_planet, which PlanetSyncService does not have: the
\* AttributeError is caught and answered with status 500.
HttpSync(request_data, fetched) ==
    /\ ops < MaxOps
    /\ LET planet_id == Get(request_data, "planet_id", None)
       IN  IF planet_id # None /\ planet_id[1] # ""
           THEN /\ last' = [op |-> "http_sync", request |-> request_data,
                            fetched |-> fetched, raised |-> TRUE, ret |-> None,
                            log |-> <<>>, status |-> 500,
                            body |-> [error |-> "Sync failed"]]
                /\ UNCHANGED <<planets, nextId, now, rng, lastSync>>
           ELSE \E r \in {sync_planets(FreshEngine, fetched)} :
                    /\ planets' = r.st.planets
                    /\ nextId' = r.st.nextId
                    /\ now' = r.st.now
                    /\ rng' = r.st.rng
                    /\ last' = [op |-> "http_sync", request |-> request_data,
                                fetched |-> fetched, raised |-> r.raised,
                                ret |-> IF r.raised THEN None ELSE Some(r.st.stats),
                                log |-> r.st.log,
                                status |-> full_sync_response(r).status,
                                body |-> full_sync_response(r).body]
                    /\ lastSync' = Some([raised |-> r.raised,
                                          ret |-> IF r.raised THEN None
                                                  ELSE Some(r.st.stats)])
    /\ ops' = ops + 1
    /\ UNCHANGED runs
    /\ UNCHANGED stats

\* GET /planets/sync-status/.  store_fails: the queries of get_sync_status()
\* raise (the database cannot be reached), which the view answers with 500.
HttpSyncStatus(store_fails) ==
    /\ ops < MaxOps
    /\ last' = IF store_fails
               THEN [op |-> "http_sync_status", raised |-> TRUE, status |-> 500,
                     body |-> [error |-> "Failed to fetch sync status"]]
               ELSE [op |-> "http_sync_status", raised |-> FALSE, status |-> 200,
                     body |-> get_sync_status(FreshEngine.planets,
                                              FreshEngine.stats)]
    /\ ops' = ops + 1
    /\ UNCHANGED runs
    /\ UNCHANGED <<planets, nextId, now, rng, stats, lastSync>>

\* The class methods of PlanetDataGenerator, called on their own
GeneratePopulation ==
    /\ ops < MaxOps
    /\ \E g \in {generate_population(rng)} :
           /\ rng' = g.rng
           /\ last' = [op |-> "generate_population", ret |-> g.value]
    /\ ops' = ops + 1
    /\ UNCHANGED runs
    /\ UNCHANGED <<planets, nextId, now, stats, lastSync>>

GenerateClimates(count) ==
    /\ ops < MaxOps
    /\ \E g \in {generate_climates(count, rng)} :
           /\ rng' = g.rng
           /\ last' = [op |-> "generate_climates", count |-> count,
                       ret |-> g.value]
    /\ ops' = ops + 1
    /\ UNCHANGED runs
    /\ UNCHANGED <<planets, nextId, now, stats, lastSync>>

GenerateTerrains(count) ==
    /\ ops < MaxOps
    /\ \E g \in {generate_terrains(count, rng)} :
           /\ rng' = g.rng
           /\ last' = [op |-> "generate_terrains", count |-> count,
                       ret |-> g.value]
    /\ ops' = ops + 1
    /\ UNCHANGED runs
    /\ UNCHANGED <<planets, nextId, now, stats, lastSync>>

GeneratePlanetData(original_data) ==
    /\ ops < MaxOps
    /\ \E g \in {generate_planet_data("Tatooine", original_data, rng)} :
           /\ rng' = g.rng
           /\ last' = [op |-> "generate_planet_data",
                       original_data |-> original_data,
                       ret |-> g.value, after |-> g.original_data]
    /\ ops' = ops + 1
    /\ UNCHANGED runs
    /\ UNCHANGED <<planets, nextId, now, stats, lastSync>>

-----------------------------------------------------------------------------
(* Inputs: what the remote source answers and what REST clients send *)

\* the sequences over S of length at most n
RECURSIVE SeqsUpTo(_, _)
SeqsUpTo(S, n) ==
    IF n = 0 THEN {<<>>}
    ELSE LET shorter == SeqsUpTo(S, n - 1)
         IN  shorter \cup {Append(b, x) : b \in shorter, x \in S}

\* a planet object of the response, every field present
Item(id, name, population, climates, terrains) ==
    Some([id |-> id, name |-> name, population |-> population,
          climates |-> climates, terrains |-> terrains])

Tatooine ==
    Item(Some("p1"), Some("Tatooine"), Some(Pop(200, 0)), Some(<<"arid">>),
         Some(<<"desert">>))
Alderaan == Item(Some("p2"), Some("Alderaan"), None, None, None)
\* the planet of id p1 again, with other fields
Tatooine2 ==
    Item(Some("p1"), Some("Tatooine II"), Some(Zero), Some(<<"hot", "dry">>),
         Some(<<>>))
\* planets without an id: the id is null, or the object has no id at all
Dagobah ==
    Item(None, Some("Dagobah"), Some(Pop(0, 500)), Some(<<"murky">>),
         Some(<<"swamp">>))
Anonymous == Some([population |-> Some(Pop(-1, 995)), climates |-> None])
\* a planet whose id is the empty string
Blank ==
    Item(Some(""), Some(" Hoth "), Some(Pop(1, 0)), Some(<<"frozen">>),
         Some(<<"tundra">>))
\* a planet whose name is null: the table rejects it
Nameless == Item(Some("p3"), None, Some(Pop(5, 0)), None, Some(<<"plains">>))

\* The planet objects of the model.  None is a null element of the list.
Items == {Tatooine, Tatooine2, Dagobah, Nameless, None}

Batches == SeqsUpTo(Items, MaxBatch)

\* what fetch_planets() does: it raises, or returns the data of the response
FetchRaises == [raised |-> TRUE]
FetchReturns(response_data) == [raised |-> FALSE, value |-> response_data]
Response(batch) == [allPlanets |-> Some([planets |-> Some(batch)])]

Malformed ==
    {EmptyDict, [allPlanets |-> None], [allPlanets |-> Some(EmptyDict)],
     [allPlanets |-> Some([planets |-> None])]}

Fetches ==
    {FetchRaises} \cup {FetchReturns(d) : d \in Malformed}
    \cup {FetchReturns(Response(b)) : b \in Batches}

\* request bodies
Body(external_id, name, population) ==
    [external_id |-> external_id, name |-> name, population |-> population]

Requests ==
    {Body(e, Some("Naboo"), Some(Pop(4500000, 0))) :
        e \in {None, Some(""), Some(" p1 ")}}
    \cup {[name |-> Some(" Hoth "), population |-> Some(Zero),
           climates |-> Some(<<"frozen">>)],
          Body(Some("p3"), Some("  "), Some(Pop(-1, 0))),
          [external_id |-> Some("p1")]}

\* the primary keys requests name: those handed out so far, and the next
Pks == {p.id : p \in planets} \cup {nextId}

-----------------------------------------------------------------------------
(* Any sequence of calls, one at a time *)

Next ==
    \/ \E fetched \in Fetches : SyncPlanets(fetched)
    \/ GetSyncStatus
    \/ \E data \in Requests : RestCreate(data)
    \/ \E pk \in Pks, data \in Requests, partial \in BOOLEAN :
           RestUpdate(pk, data, partial)
    \/ \E pk \in Pks : RestDelete(pk)

Spec == Init /\ [][Next]_vars

\* The same through the HTTP layer: the bodies of POST /planets/sync/
SyncRequests == {EmptyDict, [planet_id |-> None], [planet_id |-> Some("p1")]}

NextHttp ==
    \/ \E request_data \in SyncRequests, fetched \in Fetches :
           HttpSync(request_data, fetched)
    \/ \E store_fails \in BOOLEAN : HttpSyncStatus(store_fails)
    \/ \E data \in Requests : RestCreate(data)

SpecHttp == Init /\ [][NextHttp]_vars

-----------------------------------------------------------------------------
(* What the last call was, for the properties below *)

\* the last call was sync_planets()
SyncCalled == last.op = "sync_planets"

\* ... and its fetch returned a list of planets: Batch is that list
ListFetched ==
    /\ SyncCalled
    /\ ~ last.fetched.raised
    /\ "allPlanets" \in DOMAIN last.fetched.value
    /\ last.fetched.value.allPlanets # None
    /\ "planets" \in DOMAIN last.fetched.value.allPlanets[1]
    /\ last.fetched.value.allPlanets[1].planets # None

Batch == last.fetched.value.allPlanets[1].planets[1]

\* a step that is a call of sync_planets()
SyncStep == ops' = ops + 1 /\ last'.op = "sync_planets"

\* the log of the last run says of item i that it failed, or was upserted
Failed(i) ==
    \E n \in DOMAIN last.log :
        last.log[n].item = i /\ last.log[n].msg = "Failed to process planet"

Upserted(i) ==
    \E n \in DOMAIN last.log :
        last.log[n].item = i
        /\ last.log[n].msg \in {"Created planet", "Updated planet"}

Created(i) ==
    \E n \in DOMAIN last.log :
        last.log[n].item = i /\ last.log[n].msg = "Created planet"

\* the id and the name item i of the batch is persisted with
ItemId(i) == Get(Batch[i][1], "id", None)
ItemName(i) == Get(Batch[i][1], "name", Some(""))

-----------------------------------------------------------------------------
(* C3: if fetch_planets() raises, sync_planets() raises too, returns no    *)
(* statistics, and the rows of the table are what they were before.        *)

C3_FetchFailurePropagates ==
    [][(SyncStep /\ last'.fetched.raised)
           => (last'.raised /\ last'.ret = None /\ planets' = planets)]_vars

C3_Witness ==
    /\ SyncCalled
    /\ last.fetched.raised
    /\ last.raised
    /\ planets # {}

(* C4: a sync_planets() call that fails because the fetch fails leaves the *)
(* engine's statistics as they were before the call.                       *)

C4_StatsKeptOnFetchFailure ==
    [][(SyncStep /\ last'.fetched.raised) => stats' = stats]_vars

(* C9: when the fetch returns an empty list of planets, sync_planets()     *)
(* returns all-zero statistics without raising and changes no row.         *)

EmptyListResponses ==
    {Response(<<>>), EmptyDict, [allPlanets |-> Some(EmptyDict)]}

C9_EmptyListIsNoError ==
    [][(SyncStep /\ ~ last'.fetched.raised
            /\ last'.fetched.value \in EmptyListResponses)
           => (~ last'.raised /\ last'.ret = Some(ZeroStats)
               /\ planets' = planets)]_vars

C9_Witness ==
    /\ SyncCalled
    /\ last.fetched = FetchReturns(Response(<<>>))
    /\ last.ret = Some(ZeroStats)
    /\ planets # {}

(* C10: get_sync_status() reports as last_sync_stats the statistics the    *)
(* most recent sync_planets() call returned, whatever was called since,    *)
(* and all-zero statistics before any sync_planets() call.                 *)

-----------------------------------------------------------------------------
(* C2: after any sequence of calls made one at a time, no two rows share   *)
(* an external_id that is not null.  It fails: a request whose external_id *)
(* is the empty string is accepted without the look-up.                    *)

C2_UniqueExternalId ==
    \A p, q \in planets :
        (p.id # q.id /\ p.external_id = q.external_id) => p.external_id = None

(* C2, amended: no two rows share an external_id that is neither null nor  *)
(* the empty string.                                                       *)

C2_UniqueNonEmptyExternalId ==
    \A p, q \in planets :
        (p.id # q.id /\ p.external_id = q.external_id)
            => p.external_id \in {None, Some("")}

\* a request to create a second row of external_id p1 has been refused
C2_Witness ==
    /\ last.op = "create"
    /\ last.status = 400
    /\ "external_id" \in DOMAIN last.data
    /\ last.data.external_id = Some(" p1 ")
    /\ \E p \in planets : p.external_id = Some("p1")

-----------------------------------------------------------------------------
(* C5: when exactly one item of a batch of N fails, in the mapping or in   *)
(* the table, sync_planets() returns errors = 1 and total_processed = N-1. *)
(* It fails for a failure in the table, which is counted twice.            *)

C5_OneFailureCountsOnce ==
    (ListFetched /\ Cardinality({i \in DOMAIN Batch : Failed(i)}) = 1)
        => /\ ~ last.raised
           /\ last.ret[1].errors = 1
           /\ last.ret[1].total_processed = Len(Batch) - 1

(* C6: a failure of one item never leaves sync_planets() and never stops   *)
(* the run: the call returns, every item of the batch has been tried, and  *)
(* every item that did not fail has its row in the table, under the name   *)
(* of the last such item of the same id.                                   *)

LastOfItsId(i) ==
    \A j \in DOMAIN Batch : (j > i /\ Upserted(j)) => ItemId(j) # ItemId(i)

C6_ItemFailuresAreIsolated ==
    ListFetched =>
        /\ ~ last.raised
        /\ \A i \in DOMAIN Batch :
               /\ Failed(i) # Upserted(i)
               /\ Upserted(i) =>
                      \E p \in planets :
                          /\ p.external_id = ItemId(i)
                          /\ LastOfItsId(i) => p.name = ItemName(i)[1]

\* the table refused the first item and the second was upserted
C6_Witness ==
    /\ ListFetched
    /\ Len(Batch) = 2
    /\ Failed(1)
    /\ \E n \in DOMAIN last.log :
           last.log[n].item = 1 /\ last.log[n].msg = "Error processing planet"
    /\ Upserted(2)

(* C7: every item whose id is null or absent is inserted as a new row and  *)
(* counted in created.  It fails: update_or_create looks for the rows      *)
(* whose external_id is null and updates the one it finds.                 *)

C7_NullIdAlwaysInserted ==
    ListFetched =>
        \A i \in DOMAIN Batch :
            (Batch[i] # None /\ ItemId(i) = None) => Created(i)

-----------------------------------------------------------------------------
(* The same batch synchronized again and again, from an empty table: the   *)
(* remote source answers every fetch with the list it answered first.      *)

RepeatItems == Items \cup {Alderaan, Blank}

RepeatBatches == SeqsUpTo(RepeatItems, MaxBatch)

SyncSameBatch ==
    \E b \in RepeatBatches :
        /\ IF last.op = "init" THEN TRUE
           ELSE last.fetched = FetchReturns(Response(b))
        /\ SyncPlanets(FetchReturns(Response(b)))

SpecRepeat == Init /\ [][SyncSameBatch]_vars

\* every item of the batch is an object with an id that is not null
AllHaveIds(b) ==
    \A i \in DOMAIN b : b[i] # None /\ Get(b[i][1], "id", None) # None

\* no two items of the batch have the same id
DistinctIds(b) ==
    \A i, j \in DOMAIN b :
        i # j => Get(b[i][1], "id", None) # Get(b[j][1], "id", None)

\* no item of the batch has a null name, which the table refuses
AllNamed(b) ==
    \A i \in DOMAIN b : Get(b[i][1], "name", Some("")) # None

(* C1: from an empty table, the second run over the same batch, whose      *)
(* items all have an id that is not null, returns created = 0 and          *)
(* updated = len(batch), and the table then holds len(batch) rows.  It     *)
(* fails for a batch that names an id twice, and for an item the table     *)
(* refuses.                                                                *)

-----------------------------------------------------------------------------
(* One run over a batch whose items lack any of population, climates and   *)
(* terrains, on a table that REST clients may have written to before, the  *)
(* generator being in any state.                                           *)

FillItems ==
    {Item(Some(id), Some("Alderaan"), population, climates, terrains) :
        id \in {"p1", "p2"},
        population \in {None, Some(Pop(2000000, 0))},
        climates \in {None, Some(<<"temperate">>)},
        terrains \in {None, Some(<<"grasslands", "mountains">>)}}

FillBatches == SeqsUpTo(FillItems, MaxBatch)

FillRequests ==
    {Body(Some(e), Some("Naboo"), Some(Pop(4500000, 0))) : e \in {"p2", "p3"}}

InitAnySeed ==
    /\ planets = {}
    /\ nextId = 1
    /\ now = 0
    /\ rng \in 0..15
    /\ stats = ZeroStats
    /\ last = [op |-> "init"]
    /\ lastSync = None
    /\ ops = 0
    /\ runs = NoRuns

NextFill ==
    /\ ~ SyncCalled
    /\ \/ \E data \in FillRequests : RestCreate(data)
       \/ \E b \in FillBatches : SyncPlanets(FetchReturns(Response(b)))

SpecFill == InitAnySeed /\ [][NextFill]_vars

\* no row of the table has the id of an item of the batch
NoneStored(b, rows) ==
    \A i \in DOMAIN b :
        ~ \E p \in rows : p.external_id = Get(b[i][1], "id", None)

\* the row p holds item d: the fields d gives, and generated ones for the
\* fields d has as null
HoldsFilled(p, d) ==
    /\ p.external_id = d.id
    /\ p.name = d.name[1]
    /\ IF d.population = None
       THEN PopPositive(p.population) /\ PopDivisibleBy1000(p.population)
       ELSE p.population = d.population[1]
    /\ IF d.climates = None THEN p.climates # <<>>
       ELSE p.climates = d.climates[1]
    /\ IF d.terrains = None THEN p.terrains # <<>>
       ELSE p.terrains = d.terrains[1]

(* C8: a batch of N items with pairwise distinct ids that are not null and *)
(* not in the table, any of population, climates and terrains being null,  *)
(* gives created = N, updated = 0, errors = 0, total_processed = N and N   *)
(* new rows; a row made from null fields holds a positive population       *)
(* divisible by 1000 and climates and terrains that are not empty.         *)

-----------------------------------------------------------------------------
(* C11: a GET sync-status request served after a POST sync request that    *)
(* completed returns as last_sync_stats the statistics the POST returned.  *)
(* It fails: each view makes an engine of its own, whose statistics are    *)
(* all-zero.                                                               *)

C11_HttpStatusReportsLastSync ==
    (last.op = "http_sync_status" /\ last.status = 200
         /\ lastSync # None /\ ~ lastSync[1].raised)
        => Some(last.body.last_sync_stats) = lastSync[1].ret

(* C12: when sync_planets() upserts an item whose id is the external_id of *)
(* a row of the table, that row takes the item's name, population,         *)
(* climates and terrains (generated ones for those the item lacks) and the *)
(* time of the write as updated_at, keeps its id and its created_at, the   *)
(* run counts one update, no row is added and no other row changes.        *)

\* the row new holds the fields of item d, written over the row old
Overwrites(new, old, d) ==
    /\ new.id = old.id
    /\ new.external_id = old.external_id
    /\ new.created_at = old.created_at
    /\ new.name = d.name[1]
    /\ IF FalsyInt(d.population) THEN PopPositive(new.population)
       ELSE new.population = d.population[1]
    /\ IF FalsyList(d.climates) THEN new.climates # <<>>
       ELSE new.climates = d.climates[1]
    /\ IF FalsyList(d.terrains) THEN new.terrains # <<>>
       ELSE new.terrains = d.terrains[1]

-----------------------------------------------------------------------------
(* Lists whose items are not clean: no name, a null name, a name with      *)
(* blanks around it, a negative population; and REST writes between runs.  *)

\* a planet with an id and no name
Unnamed == Some([id |-> Some("p4"), population |-> Some(Pop(1, 0))])

DirtyItems == {Tatooine, Anonymous, Blank, Nameless, Unnamed}

DirtyBatches == SeqsUpTo(DirtyItems, MaxBatch)

NextDirty ==
    \/ \E b \in DirtyBatches : SyncPlanets(FetchReturns(Response(b)))
    \/ \E data \in Requests : RestCreate(data)
    \/ \E pk \in Pks, data \in Requests, partial \in BOOLEAN :
           RestUpdate(pk, data, partial)

SpecDirty == Init /\ [][NextDirty]_vars

(* C13: an item of the list without a name, the key being absent or its    *)
(* value null, is persisted under the name "Unknown Planet".  It fails:    *)
(* the placeholder is handed to the generator, which does not use it; the  *)
(* row gets the name "" when the key is absent, and the table refuses the  *)
(* row when the name is null.                                              *)

C13_NoNameIsUnknownPlanet ==
    ListFetched =>
        \A i \in DOMAIN Batch :
            (Batch[i] # None /\ Get(Batch[i][1], "name", None) = None)
                => \E p \in planets :
                       p.external_id = ItemId(i) /\ p.name = "Unknown Planet"

(* C14: after any sequence of REST writes and sync_planets() runs, every   *)
(* row has a name that is not empty and has no blank at either end, and a  *)
(* population that is not negative.  It fails: sync_planets() writes the   *)
(* name and the population of an item as they come.                        *)

C14_RecordsAreClean ==
    \A p \in planets :
        /\ p.name # ""
        /\ strip(p.name) = p.name
        /\ ~ PopNegative(p.population)

-----------------------------------------------------------------------------
(* The generator on its own: its methods called on raw items and counts,   *)
(* from any state of random.                                               *)

MaxCount == 27

\* raw items: population, climates and terrains each absent, null, empty
\* (0 for the population) or given
CompleteItems ==
    [id : {Some("p1")}, name : {Some("Tatooine")},
     population : {None, Some(Zero), Some(Pop(200, 0))},
     climates : {None, Some(<<>>), Some(<<"arid">>)},
     terrains : {None, Some(<<>>), Some(<<"desert">>)}]

RawItems ==
    {[k \in {"id", "name"} \cup K |-> full[k]] :
        K \in SUBSET {"population", "climates", "terrains"},
        full \in CompleteItems}

Counts == {None} \cup {Some(n) : n \in 0..MaxCount}

NextGen ==
    \/ GeneratePopulation
    \/ \E count \in Counts : GenerateClimates(count)
    \/ \E count \in Counts : GenerateTerrains(count)
    \/ \E original_data \in RawItems : GeneratePlanetData(original_data)

SpecGen == InitAnySeed /\ [][NextGen]_vars

Filled == {"population", "climates", "terrains"}

Range(seq) == {seq[i] : i \in DOMAIN seq}

\* p is a multiple of 1000 from 1000 to 10,000,000,000
InPopulationRange(p) ==
    /\ PopPositive(p)
    /\ PopDivisibleBy1000(p)
    /\ p.k >= 1 /\ p.k <= 10000000

(* C15: generate_planet_data returns a dict equal to its argument when the *)
(* argument has a population that is an integer >= 0, climates and         *)
(* terrains.  It fails: a population of 0, and an empty list, are replaced *)
(* by generated values.                                                    *)

C15_CompleteItemIsReturnedAsIs ==
    (/\ last.op = "generate_planet_data"
     /\ Filled \subseteq DOMAIN last.original_data
     /\ \A f \in Filled : last.original_data[f] # None
     /\ ~ PopNegative(last.original_data.population[1]))
        => last.ret = last.original_data

(* C16: generate_planet_data replaces each of population, climates and     *)
(* terrains by a generated value exactly when the argument has it absent,  *)
(* null or empty, whatever the other two are; every other key of the       *)
(* argument is returned as it is, and the argument is left as it was.  It  *)
(* fails: a population of 0 is replaced too.                               *)

Lacks(d, f) ==
    \/ f \notin DOMAIN d
    \/ d[f] = None
    \/ f \in {"climates", "terrains"} /\ d[f] = Some(<<>>)

IsGenerated(f, v) ==
    /\ v # None
    /\ CASE f = "population" -> InPopulationRange(v[1])
         [] f = "climates" -> v[1] # <<>> /\ Range(v[1]) \subseteq Range(CLIMATE_TYPES)
         [] f = "terrains" -> v[1] # <<>> /\ Range(v[1]) \subseteq Range(TERRAIN_TYPES)

C16_EachFieldFilledOnItsOwn ==
    last.op = "generate_planet_data" =>
        LET d == last.original_data
            r == last.ret
        IN  /\ DOMAIN r = DOMAIN d \cup Filled
            /\ \A f \in Filled :
                   IF Lacks(d, f) THEN IsGenerated(f, r[f]) ELSE r[f] = d[f]
            /\ \A k \in DOMAIN d \ Filled : r[k] = d[k]
            /\ last.after = d

(* C17: generate_population returns a positive multiple of 1000 from 1000  *)
(* to 10,000,000,000, and so is the population generate_planet_data puts   *)
(* in an item that has none.                                               *)

C17_PopulationIsAThousandsInRange ==
    /\ last.op = "generate_population" => InPopulationRange(last.ret)
    /\ (last.op = "generate_planet_data"
           /\ Get(last.original_data, "population", None) = None)
          => InPopulationRange(last.ret.population[1])

\* a population of the highest range was drawn
C17_Witness ==
    /\ last.op = "generate_population"
    /\ last.ret.k >= 1000000

(* C18: generate_climates(count) and generate_terrains(count) return       *)
(* min(count, size of the vocabulary) pairwise distinct tags of the        *)
(* vocabulary, of 20 climates and 26 terrains; without a count, 1 to 3     *)
(* climates and 2 to 4 terrains.                                           *)

C18_TagsAreDistinctAndClamped ==
    /\ Len(CLIMATE_TYPES) = 20 /\ Cardinality(Range(CLIMATE_TYPES)) = 20
    /\ Len(TERRAIN_TYPES) = 26 /\ Cardinality(Range(TERRAIN_TYPES)) = 26
    /\ last.op \in {"generate_climates", "generate_terrains"} =>
           LET climates == last.op = "generate_climates"
               vocabulary == IF climates THEN CLIMATE_TYPES ELSE TERRAIN_TYPES
               size == IF climates THEN 20 ELSE 26
           IN  /\ Range(last.ret) \subseteq Range(vocabulary)
               /\ Cardinality(Range(last.ret)) = Len(last.ret)
               /\ last.count # None =>
                      Len(last.ret) = IF last.count[1] < size
                                      THEN last.count[1] ELSE size
               /\ last.count = None =>
                      Len(last.ret) \in (IF climates THEN 1..3 ELSE 2..4)

\* more climates were asked for than there are
C18_Witness ==
    /\ last.op = "generate_climates"
    /\ last.count = Some(21)
    /\ Len(last.ret) = 20

-----------------------------------------------------------------------------
(* GraphQLClient and StarWarsGraphQLClient.  The remote source is a script *)
(* of answers: responses[n] is what the n-th self.session.post(...) does,  *)
(* it raises (no connection, time-out), or it returns a response with a    *)
(* status and a body, None for a body that is not JSON.                    *)

MaxPosts == 2

PostRaises == [raised |-> TRUE]
HttpResponse(status, body) == [raised |-> FALSE, status |-> status, body |-> body]

\* sep.join(strs), as the sequence of the pieces of the string
RECURSIVE Join(_, _)
Join(strs, sep) ==
    IF Len(strs) = 0 THEN <<>>
    ELSE IF Len(strs) = 1 THEN <<strs[1]>>
    ELSE <<strs[1], sep>> \o Join(Tail(strs), sep)

Raise(type, message, posts) ==
    [raised |-> TRUE, error |-> [type |-> type, message |-> message],
     posts |-> posts]

\* What one answer makes of the rest of query: [raised, error] or
\* [raised, value], value being None when the body has "data": null.
Answer(response, posts) ==
    IF response.raised THEN Raise("RequestException", <<>>, posts)
    ELSE IF response.status >= 400 THEN Raise("RequestException", <<>>, posts)
    ELSE IF response.body = None THEN Raise("ValueError", <<>>, posts)
    ELSE LET data == response.body[1]
         IN  IF "errors" \in DOMAIN data
             THEN IF data.errors = None
                  THEN Raise("TypeError", <<>>, posts)
                  ELSE LET error_messages ==
                               [i \in DOMAIN data.errors[1] |->
                                   Get(data.errors[1][i], "message", "Unknown error")]
                       IN  Raise("ValueError",
                                 <<"GraphQL errors: ">> \o Join(error_messages, "; "),
                                 posts)
             ELSE [raised |-> FALSE,
                   value |-> Get(data, "data", Some(EmptyDict)),
                   posts |-> posts]

\* the answer is one that makes query raise
Fails(response) == Answer(response, 1).raised

\* Variants of query with a fault: the first sends the request again when
\* it failed, the second returns the data of a body that has some, errors
\* or not.
query_retrying(responses) ==
    IF Fails(responses[1]) /\ Len(responses) > 1
    THEN Answer(responses[2], 2)
    ELSE Answer(responses[1], 1)

query_data_first(responses) ==
    LET response == responses[1]
    IN  IF ~ response.raised /\ response.status < 400 /\ response.body # None
           /\ Get(response.body[1], "data", None) # None
        THEN [raised |-> FALSE, value |-> response.body[1].data, posts |-> 1]
        ELSE Answer(response, 1)

\* GraphQLClient.query: one post, and what becomes of its answer
query(responses) == Answer(responses[1], 1)

\* StarWarsGraphQLClient.fetch_planets
fetch_planets(responses) == query(responses)

\* client.query(...) called on its own
Query(responses) ==
    /\ ops < MaxOps
    /\ \E q \in {query(responses)} :
           last' = [op |-> "query", responses |-> responses,
                    raised |-> q.raised,
                    returned |-> IF q.raised THEN None ELSE Some(q.value),
                    error |-> IF q.raised THEN Some(q.error) ELSE None,
                    posts |-> q.posts]
    /\ ops' = ops + 1
    /\ UNCHANGED runs
    /\ UNCHANGED <<planets, nextId, now, rng, stats, lastSync>>

\* sync_planets() on the engine, over the client.  Data that is None makes
\* response_data.get(...) raise inside the try of sync_planets, which ends
\* as it does when the fetch raises.
SyncFromSource(responses) ==
    /\ ops < MaxOps
    /\ \E q \in {fetch_planets(responses)} :
       \E r \in {sync_planets(Engine, IF q.raised \/ q.value = None
                                      THEN FetchRaises
                                      ELSE FetchReturns(q.value[1]))} :
           /\ planets' = r.st.planets
           /\ nextId' = r.st.nextId
           /\ now' = r.st.now
           /\ rng' = r.st.rng
           /\ stats' = r.st.stats
           /\ last' = [op |-> "sync_planets", responses |-> responses,
                       posts |-> q.posts, raised |-> r.raised,
                       ret |-> IF r.raised THEN None ELSE Some(r.st.stats),
                       log |-> r.st.log]
           /\ lastSync' = Some([raised |-> r.raised,
                                 ret |-> IF r.raised THEN None ELSE Some(r.st.stats)])
    /\ ops' = ops + 1
    /\ UNCHANGED runs

\* the bodies the remote source answers with
Bodies ==
    {[data |-> Some(Response(<<Tatooine>>))],
     [data |-> Some(Response(<<Alderaan, Tatooine2>>))],
     [data |-> None],
     EmptyDict,
     [data |-> None, errors |-> Some(<<[message |-> "Test error"]>>)],
     [data |-> Some(Response(<<Tatooine>>)),
      errors |-> Some(<<[message |-> "Cannot query field"], EmptyDict,
                        [message |-> "Time-out"]>>)],
     [errors |-> Some(<<>>)]}

Responses ==
    {PostRaises, HttpResponse(503, None), HttpResponse(200, None)}
    \cup {HttpResponse(200, Some(body)) : body \in Bodies}

Scripts == SeqsUpTo(Responses, MaxPosts) \ {<<>>}

NextClient ==
    \/ \E responses \in Scripts : Query(responses)
    \/ \E responses \in Scripts : SyncFromSource(responses)

SpecClient == Init /\ [][NextClient]_vars

(* C19: query returns the data of the body exactly when the body has no    *)
(* errors; when the body has errors, query raises, returns no data even if *)
(* the body has some, and the message of the error raised holds the        *)
(* message of every error of the body.                                     *)

\* the first answer of the script came with a body that is JSON
BodyReceived ==
    /\ last.op = "query"
    /\ ~ last.responses[1].raised
    /\ last.responses[1].status < 400
    /\ last.responses[1].body # None

ReceivedBody == last.responses[1].body[1]

C19_DataOrErrors ==
    BodyReceived =>
        IF "errors" \in DOMAIN ReceivedBody
        THEN /\ last.raised
             /\ last.returned = None
             /\ \A i \in DOMAIN ReceivedBody.errors[1] :
                    "message" \in DOMAIN ReceivedBody.errors[1][i]
                        => ReceivedBody.errors[1][i].message
                               \in Range(last.error[1].message)
        ELSE /\ ~ last.raised
             /\ last.returned = Some(Get(ReceivedBody, "data", Some(EmptyDict)))

\* a body with data and three errors made query raise
C19_Witness ==
    /\ BodyReceived
    /\ "errors" \in DOMAIN ReceivedBody
    /\ Len(ReceivedBody.errors[1]) = 3
    /\ ReceivedBody.data # None
    /\ last.raised
    /\ last.error[1].type = "ValueError"

(* C20: nothing is tried twice: a call of query, and a call of             *)
(* sync_planets(), sends one request whether it succeeds or fails; a       *)
(* request that fails makes query raise, and makes sync_planets() raise    *)
(* without statistics and without processing any item, even when a second  *)
(* request would have succeeded.                                           *)

C20_NoRetry ==
    (last.op \in {"query", "sync_planets"} /\ "responses" \in DOMAIN last) =>
        /\ last.posts = 1
        /\ Fails(last.responses[1]) =>
               /\ last.raised
               /\ last.op = "sync_planets" =>
                      /\ last.ret = None
                      /\ \A n \in DOMAIN last.log : last.log[n].item = 0

\* the first request failed and the second would have brought a planet
C20_Witness ==
    /\ last.op = "sync_planets"
    /\ "responses" \in DOMAIN last
    /\ last.responses =
           <<PostRaises, HttpResponse(200, Some([data |-> Some(Response(<<Tatooine>>))]))>>
    /\ last.raised
    /\ last.posts = 1

-----------------------------------------------------------------------------
(* sync_planets() calls that overlap, each on a connection of its own and  *)
(* on an engine of its own.  The loop runs inside transaction.atomic():    *)
(* what a call writes is seen by that call only, until the block is left   *)
(* and the writes are committed; the other connections read the committed  *)
(* rows (READ COMMITTED).  Primary keys, the clock and random are shared.  *)

\* the rows a connection reads inside its transaction: the committed rows,
\* and in place of those it wrote, what it wrote
Overlay(committed, own) ==
    {r \in committed : ~ \E w \in own : w.id = r.id} \cup own

\* A variant with a fault: no transaction, every write is committed at once.
autocommit(committed, view) == view

\* The committed rows after a write inside the block of transaction.atomic(),
\* view being the rows the writer then reads: the committed rows as they were
atomic(committed, view) == committed

\* sync_planets() up to the loop: statistics reset, the list fetched
BeginSync(p, batch) ==
    /\ ops < MaxOps
    /\ runs[p].pc = "idle"
    /\ runs' = [runs EXCEPT ![p] = [pc |-> "loop", batch |-> batch, i |-> 1,
                                     own |-> {}, stats |-> ZeroStats,
                                     log |-> <<>>]]
    /\ ops' = ops + 1
    /\ UNCHANGED <<planets, nextId, now, rng, stats, last, lastSync>>

\* one turn of the loop
SyncItem(p) ==
    /\ runs[p].pc = "loop"
    /\ runs[p].i <= Len(runs[p].batch)
    /\ LET run == runs[p]
           st == [planets |-> Overlay(planets, run.own), nextId |-> nextId,
                  now |-> now, rng |-> rng, stats |-> run.stats,
                  log |-> run.log]
       IN  \E done \in {ProcessPlanet(st, run.batch[run.i], run.i)} :
               /\ planets' = atomic(planets, done.planets)
               /\ runs' = [runs EXCEPT ![p] =
                               [run EXCEPT !.i = @ + 1,
                                           !.own = done.planets \ planets,
                                           !.stats = done.stats,
                                           !.log = done.log]]
               /\ nextId' = done.nextId
               /\ now' = done.now
               /\ rng' = done.rng
    /\ UNCHANGED <<stats, last, lastSync, ops>>

\* the end of the loop: the block is left, the writes are committed and the
\* statistics returned
CommitSync(p) ==
    /\ runs[p].pc = "loop"
    /\ runs[p].i > Len(runs[p].batch)
    /\ planets' = Overlay(planets, runs[p].own)
    /\ runs' = [runs EXCEPT ![p] = [pc |-> "done", batch |-> runs[p].batch,
                                     stats |-> runs[p].stats]]
    /\ last' = [op |-> "sync_planets",
                fetched |-> FetchReturns(Response(runs[p].batch)),
                raised |-> FALSE, ret |-> Some(runs[p].stats),
                log |-> runs[p].log]
    /\ lastSync' = Some([raised |-> FALSE, ret |-> Some(runs[p].stats)])
    /\ UNCHANGED <<nextId, now, rng, stats, ops>>

OverlapItems == {Tatooine, Tatooine2, Alderaan}

OverlapBatches == SeqsUpTo(OverlapItems, MaxBatch)

NextOverlap ==
    \/ \E p \in 1..MaxRuns, batch \in OverlapBatches : BeginSync(p, batch)
    \/ \E p \in 1..MaxRuns : SyncItem(p)
    \/ \E p \in 1..MaxRuns : CommitSync(p)
    \/ GetSyncStatus

SpecOverlap == Init /\ [][NextOverlap]_vars

(* C21: the rows a sync_planets() call writes become visible together: as  *)
(* long as the call is in its loop no reader of the table sees any of      *)
(* them, and the step that ends the loop shows them all.                   *)

C21_WritesBecomeVisibleTogether ==
    [][\A p \in 1..MaxRuns :
           runs[p].pc = "loop" =>
               /\ runs[p].own \cap planets = {}
               /\ runs'[p].pc = "done" => runs[p].own \subseteq planets']_vars

\* get_sync_status() counted no planet while a call had written two
C21_Witness ==
    /\ last.op = "get_sync_status"
    /\ last.ret[1].total_planets_in_db = 0
    /\ \E p \in 1..MaxRuns :
           runs[p].pc = "loop" /\ Cardinality(runs[p].own) = 2

(* C30: when two sync_planets() calls overlap and both process an item of  *)
(* the same id, not null and not in the table, at most one row has that    *)
(* external_id once both have ended.  It fails: neither call sees the row  *)
(* the other inserted and has not committed, and no constraint of the      *)
(* table forbids the second.                                               *)

C30_OverlappingRunsKeepIdsUnique ==
    (\A p \in 1..MaxRuns : runs[p].pc # "loop") =>
        \A r, q \in planets :
            (r.id # q.id /\ r.external_id = q.external_id)
                => r.external_id = None

-----------------------------------------------------------------------------
(* C22: POST sync without a planet_id is answered 200 with action          *)
(* "full_sync" and the statistics of sync_planets() when the call returns, *)
(* errors counted or not, and 500 with an error when it raises; GET        *)
(* sync-status is answered 200 with the status, and 500 with an error when *)
(* get_sync_status() raises.                                               *)

\* the request asks for all planets: it has no planet_id, or an empty one
FullSyncAsked ==
    /\ last.op = "http_sync"
    /\ Get(last.request, "planet_id", None) \in {None, Some("")}

C22_StatusCodeFollowsTheCall ==
    /\ FullSyncAsked =>
           IF last.raised
           THEN last.status = 500 /\ DOMAIN last.body = {"error"}
           ELSE /\ last.status = 200
                /\ last.body.action = "full_sync"
                /\ Some(last.body.stats) = last.ret
    /\ last.op = "http_sync_status" =>
           IF last.raised
           THEN last.status = 500 /\ DOMAIN last.body = {"error"}
           ELSE /\ last.status = 200
                /\ last.body.total_planets_in_db = Cardinality(planets)

\* a run that counted an error and upserted a planet was answered 200
C22_Witness ==
    /\ FullSyncAsked
    /\ last.status = 200
    /\ last.body.stats.errors > 0
    /\ last.body.stats.total_processed > 0

(* C23: POST sync with a planet_id is answered 200 with action             *)
(* "single_sync" and the planet_id, or 400 with an error when the service  *)
(* yields no planet.  It fails: PlanetSyncService has no method            *)
(* sync_single_planet, and the AttributeError is answered 500.             *)

C23_SinglePlanetSync ==
    (last.op = "http_sync" /\ ~ FullSyncAsked) =>
        \/ /\ last.status = 200
           /\ last.body.action = "single_sync"
           /\ Some(last.body.planet_id) = last.request.planet_id
        \/ last.status = 400 /\ DOMAIN last.body = {"error"}

-----------------------------------------------------------------------------
(* REST writes on their own, with requests that are wrong in one way each  *)

RestRequests ==
    {Body(Some(" p1 "), Some(" Hoth "), Some(Zero)),
     Body(Some("p2"), Some("Naboo"), Some(Pop(4500000, 0))),
     Body(Some("p3"), Some(""), Some(Pop(1, 0))),
     Body(Some("p3"), Some("  "), Some(Pop(1, 0))),
     Body(Some("p3"), Some("Naboo"), Some(Pop(-1, 0))),
     [external_id |-> Some("p1")],
     [name |-> Some("  ")],
     [population |-> Some(Pop(-1, 995))]}

NextRest ==
    \/ \E data \in RestRequests : RestCreate(data)
    \/ \E pk \in Pks, data \in RestRequests, partial \in BOOLEAN :
           RestUpdate(pk, data, partial)
    \/ \E pk \in Pks : RestDelete(pk)

SpecRest == Init /\ [][NextRest]_vars

(* C24: a create or update request is answered 400, and no row changes,    *)
(* when its name is empty or blank, its population is negative, or its     *)
(* external_id, not empty, is that of another row; a request with none of  *)
(* these and with all it must carry is accepted, also when its external_id *)
(* is that of the row it updates, and the name is stored trimmed.          *)

\* the request data is wrong, for a write on the row of primary key pk (0
\* for a create), the table holding rows
Refused(data, pk, rows) ==
    \/ /\ "name" \in DOMAIN data
       /\ data.name # None
       /\ strip(data.name[1]) = ""
    \/ /\ "population" \in DOMAIN data
       /\ data.population # None
       /\ PopNegative(data.population[1])
    \/ /\ "external_id" \in DOMAIN data
       /\ data.external_id # None
       /\ strip(data.external_id[1]) # ""
       /\ \E p \in rows :
              p.id # pk /\ p.external_id = Some(strip(data.external_id[1]))

\* the request carries the fields the write needs, none of them null
Complete(data, op) ==
    /\ \A f \in DOMAIN data \ {"external_id"} : data[f] # None
    /\ op # "partial_update" => {"name", "population"} \subseteq DOMAIN data

C24_BadRequestsAreRefused ==
    [][(ops' = ops + 1 /\ last'.op \in {"create", "update", "partial_update"}
            /\ last'.status # 404)
           => LET data == last'.data
                  pk == IF last'.op = "create" THEN 0 ELSE last'.pk
                  written == IF last'.op = "create" THEN nextId ELSE pk
              IN  IF Refused(data, pk, planets)
                  THEN last'.status = 400 /\ planets' = planets
                  ELSE Complete(data, last'.op) =>
                           /\ last'.status \in {200, 201}
                           /\ "name" \in DOMAIN data =>
                                  \E p \in planets' :
                                      /\ p.id = written
                                      /\ p.name = strip(data.name[1])]_vars

\* a row was updated by a request that names its own external_id and a
\* name with blanks around it, a second row being there
C24_Witness ==
    /\ last.op = "update"
    /\ last.status = 200
    /\ last.data = Body(Some(" p1 "), Some(" Hoth "), Some(Zero))
    /\ \E p \in planets :
           /\ p.id = last.pk /\ p.name = "Hoth" /\ p.external_id = Some("p1")
           /\ p.updated_at > p.created_at
    /\ Cardinality(planets) = 2

-----------------------------------------------------------------------------
(* C25: get_sync_status() changes no row and no statistics, and reports    *)
(* the number of rows, and the name and the updated_at of the row updated  *)
(* last, both null when the table is empty.                                *)

C25_StatusReadsTheStore ==
    [][(ops' = ops + 1 /\ last'.op = "get_sync_status")
           => LET status == last'.ret[1]
              IN  /\ planets' = planets
                  /\ stats' = stats
                  /\ status.total_planets_in_db = Cardinality(planets)
                  /\ IF planets = {}
                     THEN /\ status.last_updated_planet = None
                          /\ status.last_sync_time = None
                     ELSE \E p \in planets :
                              /\ \A q \in planets : q.updated_at <= p.updated_at
                              /\ status.last_updated_planet = Some(p.name)
                              /\ status.last_sync_time = Some(p.updated_at)]_vars

\* the status of a table of two rows written at different times
C25_Witness ==
    /\ last.op = "get_sync_status"
    /\ last.ret[1].total_planets_in_db = 2
    /\ last.ret[1].last_sync_time = Some(2)
    /\ \E p \in planets : p.updated_at = 1

-----------------------------------------------------------------------------
(* The management command sync_planets (manage.py sync_planets [--status]  *)
(* [--verbose]).  handle makes an engine of its own.                       *)

\* str(e) of the exception sync_planets() raises for what the fetch did
SyncErrorMessage(fetched) ==
    IF fetched.raised THEN "Network error"
    ELSE IF Get(fetched.value, "allPlanets", Some(EmptyDict)) = None
    THEN "'NoneType' object has no attribute 'get'"
    ELSE "'NoneType' object is not iterable"

CommandError(e) ==
    [type |-> "CommandError", message |-> <<"Sync failed: ", e>>]

\* show_status: what it writes
show_status(status) ==
    << [text |-> "=== Planet Sync Status ==="],
       [text |-> "Total planets in database", n |-> status.total_planets_in_db],
       [text |-> "Last sync statistics", stats |-> status.last_sync_stats] >>

\* sync_all_planets: what it writes for the statistics returned
sync_all_planets(returned) ==
    << [text |-> "Starting planet synchronization..."],
       [text |-> "=== Sync Completed ===", stats |-> returned],
       IF returned.errors > 0
       THEN [text |-> "Sync completed with errors", n |-> returned.errors]
       ELSE [text |-> "Sync completed successfully!"] >>

\* A variant of handle with a fault: --status runs a sync before it reports.
handle_syncing_first(options, st, fetched, store_fails) ==
    LET r == sync_planets(st, fetched)
    IN  IF r.raised
        THEN [raised |-> TRUE, error |-> Some(CommandError(SyncErrorMessage(fetched))),
              output |-> <<>>, st |-> r.st, calls |-> <<"sync_planets">>]
        ELSE IF options.status
        THEN [raised |-> FALSE, error |-> None,
              output |-> show_status(get_sync_status(r.st.planets, r.st.stats)),
              st |-> r.st, calls |-> <<"sync_planets", "get_sync_status">>]
        ELSE [raised |-> FALSE, error |-> None,
              output |-> sync_all_planets(r.st.stats), st |-> r.st,
              calls |-> <<"sync_planets">>]

\* Command.handle on the engine st it made: [raised, error, output, st] and
\* the calls made on the engine.  store_fails: the queries of
\* get_sync_status() raise.
handle(options, st, fetched, store_fails) ==
    IF options.status
    THEN IF store_fails
         THEN [raised |-> TRUE,
               error |-> Some(CommandError("database is unavailable")),
               output |-> <<>>, st |-> st, calls |-> <<"get_sync_status">>]
         ELSE [raised |-> FALSE, error |-> None,
               output |-> show_status(get_sync_status(st.planets, st.stats)),
               st |-> st, calls |-> <<"get_sync_status">>]
    ELSE CHOOSE h \in
             { IF r.raised
               THEN [raised |-> TRUE,
                     error |-> Some(CommandError(SyncErrorMessage(fetched))),
                     output |-> <<[text |-> "Starting planet synchronization..."]>>,
                     st |-> r.st, calls |-> <<"sync_planets">>]
               ELSE [raised |-> FALSE, error |-> None,
                     output |-> sync_all_planets(r.st.stats), st |-> r.st,
                     calls |-> <<"sync_planets">>]
               : r \in {sync_planets(st, fetched)} } : TRUE

\* manage.py sync_planets
Command(options, fetched, store_fails) ==
    /\ ops < MaxOps
    /\ \E h \in {handle(options, FreshEngine, fetched, store_fails)} :
           /\ planets' = h.st.planets
           /\ nextId' = h.st.nextId
           /\ now' = h.st.now
           /\ rng' = h.st.rng
           /\ last' = [op |-> "command", options |-> options,
                       fetched |-> fetched, store_fails |-> store_fails,
                       raised |-> h.raised, error |-> h.error,
                       output |-> h.output, calls |-> h.calls,
                       returned |-> h.st.stats]
    /\ ops' = ops + 1
    /\ UNCHANGED <<stats, lastSync, runs>>

Options == [status : BOOLEAN, verbose : BOOLEAN]

\* With --status nothing is fetched, and without it get_sync_status() is
\* not called: what they would do then is left out of the inputs.
NextCommand ==
    \/ \E options \in Options, fetched \in Fetches, store_fails \in BOOLEAN :
           /\ options.status => fetched = FetchRaises
           /\ store_fails => options.status
           /\ Command(options, fetched, store_fails)
    \/ \E data \in Requests : RestCreate(data)

SpecCommand == Init /\ [][NextCommand]_vars

(* C26: with --status the command calls get_sync_status() only and writes  *)
(* no row; without it the command calls sync_planets() once and ends its   *)
(* output with "Sync completed with <n> errors" when the errors returned   *)
(* are n > 0, with "Sync completed successfully!" otherwise; an exception  *)
(* of the engine leaves the command as a CommandError that holds the       *)
(* exception's message.                                                    *)

\* the engine raises in the call the command makes, on the table as it is
EngineRaises(options, fetched, store_fails) ==
    IF options.status THEN store_fails
    ELSE sync_planets(FreshEngine, fetched).raised

C26_CommandModes ==
    [][(ops' = ops + 1 /\ last'.op = "command")
           => /\ IF last'.options.status
                 THEN /\ last'.calls = <<"get_sync_status">>
                      /\ planets' = planets
                 ELSE last'.calls = <<"sync_planets">>
              /\ IF EngineRaises(last'.options, last'.fetched, last'.store_fails)
                 THEN /\ last'.raised
                      /\ last'.error[1].type = "CommandError"
                      /\ (IF last'.options.status THEN "database is unavailable"
                          ELSE SyncErrorMessage(last'.fetched))
                             \in Range(last'.error[1].message)
                 ELSE /\ ~ last'.raised
                      /\ ~ last'.options.status =>
                             last'.output[Len(last'.output)] =
                                 IF last'.returned.errors > 0
                                 THEN [text |-> "Sync completed with errors",
                                       n |-> last'.returned.errors]
                                 ELSE [text |-> "Sync completed successfully!"]]_vars

\* the command synchronized a list and reported an error
C26_Witness ==
    /\ last.op = "command"
    /\ ~ last.options.status
    /\ ~ last.raised
    /\ last.output[3] = [text |-> "Sync completed with errors", n |-> 1]
    /\ planets # {}

-----------------------------------------------------------------------------
(* C27: the second of two runs over the same list leaves the name, the     *)
(* population, the climates and the terrains of every row as the first run *)
(* left them, also for items that have some of them null.  It fails: the   *)
(* fields an item lacks are generated anew in every run.                   *)

C27_SecondRunKeepsFields ==
    [][(SyncStep /\ ops = 1)
           => \A p \in planets :
                  \E q \in planets' :
                      /\ q.id = p.id
                      /\ q.name = p.name
                      /\ q.population = p.population
                      /\ q.climates = p.climates
                      /\ q.terrains = p.terrains]_vars

(* C28: the statistics sync_planets() returns count the items of that run  *)
(* only, and total_processed = created + updated = the number of items of  *)
(* the list that were upserted, whatever items failed.                     *)

C28_CountersAgree ==
    (ListFetched /\ ~ last.raised) =>
        /\ last.ret[1].total_processed = last.ret[1].created + last.ret[1].updated
        /\ last.ret[1].total_processed
               = Cardinality({i \in DOMAIN Batch : Upserted(i)})
        /\ last.ret[1].created = Cardinality({i \in DOMAIN Batch : Created(i)})
        /\ last.ret[1].total_processed <= Len(Batch)

\* a third run, after runs that counted, with one item upserted and one
\* refused
C28_Witness ==
    /\ ListFetched
    /\ ops = 3
    /\ Len(Batch) = 2
    /\ last.ret[1].total_processed = 1
    /\ last.ret[1].updated = 1
    /\ last.ret[1].errors > 0

(* C29: when items of one list share an id, not null and not in the table, *)
(* the first of them is created, each later one is counted as updated, and *)
(* the table then has one row of that id, holding the fields of the last   *)
(* of them.  It fails when the table refuses the items: an item whose name *)
(* is null is not given the placeholder name, and no row is made.          *)

\* the places in list b of the items of id e
Places(b, e) == {i \in DOMAIN b : b[i] # None /\ Get(b[i][1], "id", None) = e}

\* row p holds the fields of item d, generated ones for those it lacks
HoldsMapped(p, d) ==
    /\ p.name = d.name[1]
    /\ IF FalsyInt(d.population) THEN PopPositive(p.population)
       ELSE p.population = d.population[1]
    /\ IF FalsyList(d.climates) THEN p.climates # <<>>
       ELSE p.climates = d.climates[1]
    /\ IF FalsyList(d.terrains) THEN p.terrains # <<>>
       ELSE p.terrains = d.terrains[1]

C29_SameIdInOneBatch ==
    [][(SyncStep /\ ListFetched')
           => \A e \in {Some("p1"), Some("p2"), Some("p3")} :
                  LET places == Places(Batch', e)
                  IN  (Cardinality(places) >= 2
                       /\ ~ \E p \in planets : p.external_id = e)
                      => /\ \A i \in places :
                                Created(i)' = (\A j \in places : i <= j)
                         /\ \A i \in places : Upserted(i)'
                         /\ Cardinality({p \in planets' : p.external_id = e}) = 1
                         /\ \A p \in planets' :
                                p.external_id = e =>
                                    \A i \in places :
                                        (\A j \in places : j <= i)
                                            => HoldsMapped(p, Batch'[i][1])]_vars

=============================================================================
